---------------------------- MODULE Spec2Model ----------------------------
(***************************************************************************)
(* A model of auto_coder.core.CodeGenerator (src/src/auto_coder/core.py):  *)
(* the self-modification manager (self_modify, rollback_modification,      *)
(* get_modification_history) over a small filesystem, and the code         *)
(* generation orchestrator (generate_code and its three paths).            *)
(*                                                                         *)
(* A text (str) is a sequence of one-character strings.  The backtick,     *)
(* which the lexer of TLA+ does not accept inside a string, is written BT. *)
(* A file holds bytes, also one per element; read_text and write_text are  *)
(* the conversions between the two (POSIX: universal newlines on read, no  *)
(* translation on write).                                                  *)
(***************************************************************************)
EXTENDS Integers, Sequences, FiniteSets, TLC

VARIABLES
    langchain_engine,       \* self.langchain_engine is set (truthy)
    fs,                     \* the filesystem: path |-> bytes, for the files that exist
    modification_history,   \* self.modification_history
    calls,                  \* the self_modify coroutines: where each one stands
    last,                   \* what the caller saw of the last completed operation
    finder_available,       \* SOLUTION_FINDER_AVAILABLE
    gen,                    \* the generate_code coroutine: where it stands
    result                  \* what generate_code returned (or that it raised)

vars == <<langchain_engine, fs, modification_history, calls, last,
          finder_available, gen, result>>

-----------------------------------------------------------------------------
(* Texts *)

BT == "BT"

Rep(c, n) == [i \in 1..n |-> c]

RECURSIVE Concat(_)
Concat(ss) == IF ss = <<>> THEN <<>> ELSE Head(ss) \o Concat(Tail(ss))

UpperAlpha ==
    <<"A","B","C","D","E","F","G","H","I","J","K","L","M",
      "N","O","P","Q","R","S","T","U","V","W","X","Y","Z">>

LowerAlpha ==
    <<"a","b","c","d","e","f","g","h","i","j","k","l","m",
      "n","o","p","q","r","s","t","u","v","w","x","y","z">>

Digits == {"0","1","2","3","4","5","6","7","8","9"}

Range(s) == {s[i] : i \in DOMAIN s}

\* str.lower(), one character
LowerChar(c) ==
    IF c \in Range(UpperAlpha)
    THEN LowerAlpha[CHOOSE i \in DOMAIN UpperAlpha : UpperAlpha[i] = c]
    ELSE c

\* str.lower()
Lower(t) == [i \in DOMAIN t |-> LowerChar(t[i])]

\* the characters str.strip() removes
Whitespace == {" ", "\n", "\r", "\t"}

\* the regular expression class \w, and the complement of [^a-zA-Z0-9_]
IsWordChar(c) == c \in Range(UpperAlpha) \cup Range(LowerAlpha) \cup Digits \cup {"_"}

\* str.strip()
Strip(t) ==
    LET keep == {i \in DOMAIN t : t[i] \notin Whitespace}
    IN  IF keep = {} THEN <<>>
        ELSE LET lo == CHOOSE i \in keep : \A j \in keep : i <= j
                 hi == CHOOSE i \in keep : \A j \in keep : j <= i
             IN  SubSeq(t, lo, hi)

\* t[i:].startswith(s), 1-based
IsPrefixAt(t, i, s) ==
    /\ i >= 1
    /\ i + Len(s) - 1 <= Len(t)
    /\ \A k \in 1..Len(s) : t[i + k - 1] = s[k]

\* s in t
Contains(t, s) == \E i \in 1..(Len(t) + 1) : IsPrefixAt(t, i, s)

\* str.split('\n')
RECURSIVE SplitLines(_)
SplitLines(t) ==
    LET nl == {i \in DOMAIN t : t[i] = "\n"}
    IN  IF nl = {} THEN <<t>>
        ELSE LET i == CHOOSE k \in nl : \A j \in nl : k <= j
             IN  <<SubSeq(t, 1, i - 1)>> \o SplitLines(SubSeq(t, i + 1, Len(t)))

\* '\n'.join(lines)
RECURSIVE JoinLines(_)
JoinLines(ls) ==
    IF ls = <<>> THEN <<>>
    ELSE IF Len(ls) = 1 THEN ls[1]
    ELSE ls[1] \o <<"\n">> \o JoinLines(Tail(ls))

-----------------------------------------------------------------------------
(* Response extraction: _extract_code_from_response *)

Fence == <<BT, BT, BT>>

\* the narrative markers of the fallback strategy
Markers ==
    { <<"h","e","r","e">>,
      <<"t","h","i","s">>,
      <<"t","h","e"," ","f","o","l","l","o","w","i","n","g">>,
      <<"c","o","d","e",":">>,
      <<"e","x","a","m","p","l","e",":">> }

\* the index after the longest run of \w characters that starts at j
RECURSIVE WordRunEnd(_, _)
WordRunEnd(t, j) ==
    IF j <= Len(t) /\ IsWordChar(t[j]) THEN WordRunEnd(t, j + 1) ELSE j

\* the first index >= j where a fence starts, 0 when there is none
FirstFenceFrom(t, j) ==
    LET at == {k \in j..Len(t) : IsPrefixAt(t, k, Fence)}
    IN  IF at = {} THEN 0 ELSE CHOOSE k \in at : \A m \in at : k <= m

\* the payload of a match of ```(?:\w+)?\n(.*?)``` (DOTALL) that starts at i;
\* \w+ is followed by \n, so only its longest run can match
FenceMatchAt(t, i) ==
    LET j == WordRunEnd(t, i + 3)
        k == FirstFenceFrom(t, j + 1)
    IN  IF /\ IsPrefixAt(t, i, Fence)
           /\ j <= Len(t)
           /\ t[j] = "\n"
           /\ k # 0
        THEN [found |-> TRUE, payload |-> SubSeq(t, j + 1, k - 1)]
        ELSE [found |-> FALSE, payload |-> <<>>]

\* a line of the fallback survives when no marker occurs in line.lower()
KeepLine(line) == \A m \in Markers : ~Contains(Lower(line), m)

RECURSIVE KeepLines(_)
KeepLines(ls) ==
    IF ls = <<>> THEN <<>>
    ELSE (IF KeepLine(Head(ls)) THEN <<Head(ls)>> ELSE <<>>) \o KeepLines(Tail(ls))

\* _extract_code_from_response(response, language): matches[0].strip(), or the
\* filtered lines joined and stripped
ExtractCodeFromResponse(response) ==
    LET starts == {i \in DOMAIN response : FenceMatchAt(response, i).found}
    IN  IF starts # {}
        THEN Strip(FenceMatchAt(response,
                       CHOOSE i \in starts : \A j \in starts : i <= j).payload)
        ELSE Strip(JoinLines(KeepLines(SplitLines(response))))

-----------------------------------------------------------------------------
(* Python source, as far as ast.parse and ast.walk are asked about it.  The
   parser is a library; what the model keeps of it is: brackets must balance,
   the first statement must not be indented and no backtick may occur
   (SyntaxError otherwise), a
   definition starts with the keyword def or class, its docstring is a string
   that is the first thing of its body, a try statement is the keyword try
   with its colon. *)

\* how many more ( than ) the first i characters hold
BracketDepth(t, i) ==
    Cardinality({k \in 1..i : t[k] = "("}) - Cardinality({k \in 1..i : t[k] = ")"})

BracketsBalanced(t) ==
    /\ \A i \in DOMAIN t : BracketDepth(t, i) >= 0
    /\ BracketDepth(t, Len(t)) = 0

FirstStatementIndented(t) ==
    LET body == {i \in DOMAIN t : t[i] \notin Whitespace}
        first == CHOOSE i \in body : \A j \in body : i <= j
    IN  /\ body # {}
        /\ first > 1
        /\ t[first - 1] \in {" ", "\t"}

\* ast.parse(code) returns (TRUE) or raises SyntaxError (FALSE)
AstParses(code) ==
    /\ BracketsBalanced(code)
    /\ ~FirstStatementIndented(code)
    /\ BT \notin Range(code)

DefKeywords == { <<"d","e","f"," ">>, <<"c","l","a","s","s"," ">> }

\* where a FunctionDef, AsyncFunctionDef or ClassDef node starts
DefStarts(code) ==
    {i \in DOMAIN code :
        /\ \E kw \in DefKeywords : IsPrefixAt(code, i, kw)
        /\ (i = 1 \/ ~IsWordChar(code[i - 1]))}

\* ast.get_docstring(node) is truthy: the body, after the header's colon,
\* starts with a string literal
HasDocstring(code, i) ==
    LET colons == {k \in i..Len(code) : code[k] = ":"}
        c == CHOOSE k \in colons : \A m \in colons : k <= m
        body == {k \in (c + 1)..Len(code) : code[k] \notin Whitespace}
    IN  /\ colons # {}
        /\ body # {}
        /\ code[CHOOSE k \in body : \A m \in body : k <= m] = "\""

UndocumentedDefs(code) == Cardinality({i \in DefStarts(code) : ~HasDocstring(code, i)})

\* any(isinstance(node, ast.Try) for node in ast.walk(tree))
HasTry(code) == Contains(code, <<"t","r","y",":">>)

-----------------------------------------------------------------------------
(* Paths: a path is the sequence of its parts (PurePath.parts), a part is a
   text.  Files hold bytes. *)

\* fnmatch.fnmatchcase(name, pat) for patterns of literals and *
RECURSIVE FnMatch(_, _)
FnMatch(name, pat) ==
    IF pat = <<>> THEN name = <<>>
    ELSE IF Head(pat) = "*"
         THEN FnMatch(name, Tail(pat)) \/ (name # <<>> /\ FnMatch(Tail(name), pat))
    ELSE name # <<>> /\ Head(name) = Head(pat) /\ FnMatch(Tail(name), Tail(pat))

\* PurePath.match(pattern), pattern relative: its parts are matched against
\* the path's last parts
PathMatch(path, pattern) ==
    /\ Len(pattern) <= Len(path)
    /\ \A k \in 1..Len(pattern) :
           FnMatch(path[Len(path) - Len(pattern) + k], pattern[k])

\* PurePath.suffix: from the last dot of the name, unless the name starts or
\* ends with it
Suffix(name) ==
    LET dots == {i \in DOMAIN name : name[i] = "."}
        i == CHOOSE k \in dots : \A m \in dots : m <= k
    IN  IF dots # {} /\ 1 < i /\ i < Len(name)
        THEN SubSeq(name, i, Len(name))
        ELSE <<>>

\* PurePath.with_suffix(suffix)
WithSuffix(path, suffix) ==
    LET name == path[Len(path)]
        stem == SubSeq(name, 1, Len(name) - Len(Suffix(name)))
    IN  [path EXCEPT ![Len(path)] = stem \o suffix]

\* Path.exists()
Exists(files, path) == path \in DOMAIN files

\* text mode decoding with universal newlines: \r\n and \r become \n
RECURSIVE TranslateNewlines(_)
TranslateNewlines(bytes) ==
    IF bytes = <<>> THEN <<>>
    ELSE IF Head(bytes) = "\r"
         THEN <<"\n">> \o TranslateNewlines(
                  IF Len(bytes) >= 2 /\ bytes[2] = "\n"
                  THEN Tail(Tail(bytes)) ELSE Tail(bytes))
    ELSE <<Head(bytes)>> \o TranslateNewlines(Tail(bytes))

\* Path.read_text()
ReadText(files, path) == TranslateNewlines(files[path])

\* Path.write_text(text): creates or truncates; \n is written as os.linesep,
\* which is \n
WriteText(files, path, text) ==
    [q \in DOMAIN files \cup {path} |-> IF q = path THEN text ELSE files[q]]

-----------------------------------------------------------------------------
(* The self-modification manager *)

\* safe_patterns of _is_safe_to_modify: 'osa_*.py', 'src/core/*.py',
\* 'src/plugins/*.py', each as its parts
safe_patterns ==
    << <<<<"o","s","a","_","*",".","p","y">>>>,
       <<<<"s","r","c">>, <<"c","o","r","e">>, <<"*",".","p","y">>>>,
       <<<<"s","r","c">>, <<"p","l","u","g","i","n","s">>, <<"*",".","p","y">>>> >>

\* _is_safe_to_modify(target_file)
IsSafeToModifyAlways(target_file) == TRUE

IsSafeToModify(target_file) ==
    \E k \in DOMAIN safe_patterns : PathMatch(target_file, safe_patterns[k])

\* the least length of a modification, after trimming
MinModifiedLength == 10

\* _validate_modification(original, modified)
ValidateModificationStrict(original, modified) ==
    IF AstParses(modified)
    THEN IF Len(Strip(modified)) <= MinModifiedLength THEN FALSE
         ELSE IF original = modified THEN FALSE
         ELSE TRUE
    ELSE FALSE

ValidateModification(original, modified) ==
    IF AstParses(modified)
    THEN IF Len(Strip(modified)) < MinModifiedLength THEN FALSE
         ELSE IF original = modified THEN FALSE
         ELSE TRUE
    ELSE FALSE

\* the backup path of self_modify: target_path.with_suffix('.bak')
BackupPath(target_file) == WithSuffix(target_file, <<".","b","a","k">>)

\* the record self_modify appends (its timestamp, the event loop's clock, is
\* not modelled)
ModificationRecord(target_file, modification_request) ==
    [file |-> target_file,
     request |-> modification_request,
     backup |-> BackupPath(target_file)]

(* Inputs *)

F_osa == <<<<"o","s","a","_","a",".","p","y">>>>
F_core == <<<<"s","r","c">>, <<"c","o","r","e">>, <<"b",".","p","y">>>>
F_plugin == <<<<"s","r","c">>, <<"p","l","u","g","i","n","s">>, <<"c",".","p","y">>>>
F_lib_osa == <<<<"l","i","b">>, <<"o","s","a","_","a",".","p","y">>>>
F_main == <<<<"m","a","i","n",".","p","y">>>>
F_deep == <<<<"s","r","c">>, <<"c","o","r","e">>, <<"s","u","b">>, <<"d",".","p","y">>>>
F_short == <<<<"c","o","r","e">>, <<"b",".","p","y">>>>
F_bak == <<<<"o","s","a","_","a",".","b","a","k">>>>

\* the paths self_modify and rollback_modification are called with
TargetFiles == {F_osa, F_core, F_plugin, F_lib_osa, F_main, F_deep, F_short, F_bak}

\* file contents before the first call
Orig_CRLF == <<"a"," ","="," ","(","1",")","\r","\n","b"," ","="," ","(","2",")","\r","\n">>
Orig_bare == <<"x"," ","="," ","(","1","2","3","4","5",")">>
Orig_LF == <<"a"," ","="," ","(","1",")","\n">>

\* what the LLM may answer to a modification prompt
R_fenced == <<"H","e","r","e"," ","y","o","u"," ","g","o",":","\n",BT,BT,BT,"p","y","t","h","o","n","\n","b"," ","="," ","(","2","2","2","2","2",")","\n",BT,BT,BT,"\n","D","o","n","e",".">>
R_plain10 == <<"c"," ","="," ","(","3","3","3","3",")">>
R_short9 == <<"d"," ","="," ","(","4","4","4",")">>
R_syntax == <<"e"," ","="," ","(","5","5","5","5","5">>
R_same == <<"x"," ","="," ","(","1","2","3","4","5",")">>

ModificationResponses == {R_fenced, R_plain10, R_short9, R_syntax, R_same}

ModificationRequests == {"add logging", "rename a"}

\* how many records the history may hold, and how many self_modify calls exist
MaxHistory == 2
MaxCalls == 2

Calls == 1..MaxCalls

IdleCall ==
    [pc |-> "idle", target_file |-> <<>>, modification_request |-> "",
     original_code |-> <<>>, modified_code |-> <<>>, overwritten |-> <<>>]

\* what the caller sees when an operation returns: its name, its argument and
\* its value; for self_modify also the code the LLM's answer held (code) and
\* the bytes the target held until it was overwritten (before)
NoReturn ==
    [op |-> "none", file |-> <<>>, value |-> FALSE, before |-> <<>>, code |-> <<>>]

Returned(op, file, value, before, code) ==
    [op |-> op, file |-> file, value |-> value, before |-> before, code |-> code]

IdleGen == [pc |-> "idle"]

NoResult == [kind |-> "none"]

\* no coroutine is between its first and its last step
NoCallInProgress == \A c \in Calls : calls[c].pc = "idle"

\* a new call is coroutine c: the first one that is not running
IsFreeCall(c) ==
    /\ calls[c].pc = "idle"
    /\ \A d \in Calls : calls[d].pc = "idle" => c <= d

Init ==
    /\ langchain_engine \in BOOLEAN
    /\ \E c_osa \in {Orig_CRLF, Orig_bare} :
           fs = [p \in {F_osa, F_core, F_main} |->
                    IF p = F_osa THEN c_osa ELSE Orig_LF]
    /\ modification_history = <<>>
    /\ calls = [c \in Calls |-> IdleCall]
    /\ last = NoReturn
    /\ finder_available = FALSE
    /\ gen = IdleGen
    /\ result = NoResult

\* self_modify without the LLM gate: the query is sent whether or not an
\* engine is configured
SelfModifyBeginUngated(c, target_file, modification_request) ==
    /\ NoCallInProgress
    /\ IsFreeCall(c)
    /\ Len(modification_history) < MaxHistory
    /\ UNCHANGED <<langchain_engine, fs, modification_history, finder_available, gen, result>>
    /\ IF ~IsSafeToModify(target_file) \/ ~Exists(fs, target_file)
       THEN /\ last' = Returned("self_modify", target_file, FALSE, <<>>, <<>>)
            /\ UNCHANGED calls
       ELSE /\ calls' = [calls EXCEPT ![c] =
                   [pc |-> "awaiting",
                    target_file |-> target_file,
                    modification_request |-> modification_request,
                    original_code |-> ReadText(fs, target_file),
                    modified_code |-> <<>>,
                    overwritten |-> <<>>]]
            /\ last' = NoReturn

\* self_modify up to its await: the allow-list, the existence check, the
\* read, and the query to the LLM when there is one (lines 232-247)
SelfModifyBegin(c, target_file, modification_request) ==
    /\ NoCallInProgress
    /\ IsFreeCall(c)
    /\ Len(modification_history) < MaxHistory
    /\ UNCHANGED <<langchain_engine, fs, modification_history, finder_available, gen, result>>
    /\ IF ~IsSafeToModify(target_file)
       THEN /\ last' = Returned("self_modify", target_file, FALSE, <<>>, <<>>)
            /\ UNCHANGED calls
       ELSE IF ~Exists(fs, target_file)
       THEN /\ last' = Returned("self_modify", target_file, FALSE, <<>>, <<>>)
            /\ UNCHANGED calls
       ELSE IF langchain_engine
       THEN /\ calls' = [calls EXCEPT ![c] =
                   [pc |-> "awaiting",
                    target_file |-> target_file,
                    modification_request |-> modification_request,
                    original_code |-> ReadText(fs, target_file),
                    modified_code |-> <<>>,
                    overwritten |-> <<>>]]
            /\ last' = NoReturn
       ELSE /\ last' = Returned("self_modify", target_file, FALSE, <<>>, <<>>)
            /\ UNCHANGED calls

\* the LLM answers: _generate_modification extracts the code, then
\* _validate_modification decides (lines 244, 248-250, 267-271)
SelfModifyResume(c, response) ==
    /\ calls[c].pc = "awaiting"
    /\ UNCHANGED <<langchain_engine, fs, modification_history, finder_available, gen, result>>
    /\ LET modified_code == ExtractCodeFromResponse(response)
       IN  IF ~ValidateModification(calls[c].original_code, modified_code)
           THEN /\ calls' = [calls EXCEPT ![c] = IdleCall]
                /\ last' = Returned("self_modify", calls[c].target_file, FALSE, <<>>, modified_code)
           ELSE /\ calls' = [calls EXCEPT ![c].pc = "validated",
                                          ![c].modified_code = modified_code]
                /\ UNCHANGED last

\* the backup step without its write
SelfModifyWriteBackupSkipped(c) ==
    /\ calls[c].pc = "validated"
    /\ calls' = [calls EXCEPT ![c].pc = "backed_up"]
    /\ UNCHANGED <<langchain_engine, fs, modification_history, last, finder_available, gen, result>>

\* the backup step writing what the target holds now, not what the call read
SelfModifyWriteBackupFresh(c) ==
    /\ calls[c].pc = "validated"
    /\ fs' = WriteText(fs, BackupPath(calls[c].target_file),
                       ReadText(fs, calls[c].target_file))
    /\ calls' = [calls EXCEPT ![c].pc = "backed_up"]
    /\ UNCHANGED <<langchain_engine, modification_history, last, finder_available, gen, result>>

\* backup_path.write_text(original_code) (lines 251-252)
SelfModifyWriteBackup(c) ==
    /\ calls[c].pc = "validated"
    /\ fs' = WriteText(fs, BackupPath(calls[c].target_file), calls[c].original_code)
    /\ calls' = [calls EXCEPT ![c].pc = "backed_up"]
    /\ UNCHANGED <<langchain_engine, modification_history, last, finder_available, gen, result>>

\* target_path.write_text(modified_code) (line 253); overwritten remembers the
\* bytes the target held until this write
SelfModifyWriteTarget(c) ==
    /\ calls[c].pc = "backed_up"
    /\ fs' = WriteText(fs, calls[c].target_file, calls[c].modified_code)
    /\ calls' = [calls EXCEPT ![c].pc = "written",
                              ![c].overwritten = fs[calls[c].target_file]]
    /\ UNCHANGED <<langchain_engine, modification_history, last, finder_available, gen, result>>

\* self.modification_history.append(...); return True (lines 254-256)
SelfModifyAppend(c) ==
    /\ calls[c].pc = "written"
    /\ modification_history' = Append(modification_history,
           ModificationRecord(calls[c].target_file, calls[c].modification_request))
    /\ last' = Returned("self_modify", calls[c].target_file, TRUE,
                       calls[c].overwritten, calls[c].modified_code)
    /\ calls' = [calls EXCEPT ![c] = IdleCall]
    /\ UNCHANGED <<langchain_engine, fs, finder_available, gen, result>>

\* the records of file_path whose backup exists, by index
RestorableRecords(file_path) ==
    {i \in DOMAIN modification_history :
        /\ modification_history[i].file = file_path
        /\ Exists(fs, modification_history[i].backup)}

\* a rollback that consumes the record it restores from
RollbackModificationPop(file_path) ==
    /\ NoCallInProgress
    /\ UNCHANGED <<langchain_engine, calls, finder_available, gen, result>>
    /\ IF RestorableRecords(file_path) # {}
       THEN LET i == CHOOSE k \in RestorableRecords(file_path) :
                         \A m \in RestorableRecords(file_path) : m <= k
                mod == modification_history[i]
            IN  /\ fs' = WriteText(fs, file_path, ReadText(fs, mod.backup))
                /\ modification_history' =
                       SubSeq(modification_history, 1, i - 1)
                       \o SubSeq(modification_history, i + 1, Len(modification_history))
                /\ last' = Returned("rollback_modification", file_path, TRUE, <<>>, <<>>)
       ELSE /\ UNCHANGED <<fs, modification_history>>
            /\ last' = Returned("rollback_modification", file_path, FALSE, <<>>, <<>>)

\* rollback_modification(file_path): the newest record of the file whose
\* backup exists decides
RollbackModification(file_path) ==
    /\ NoCallInProgress
    /\ UNCHANGED <<langchain_engine, modification_history, calls, finder_available, gen, result>>
    /\ IF RestorableRecords(file_path) # {}
       THEN LET i == CHOOSE k \in RestorableRecords(file_path) :
                         \A m \in RestorableRecords(file_path) : m <= k
                mod == modification_history[i]
            IN  /\ fs' = WriteText(fs, file_path, ReadText(fs, mod.backup))
                /\ last' = Returned("rollback_modification", file_path, TRUE, <<>>, <<>>)
       ELSE /\ UNCHANGED fs
            /\ last' = Returned("rollback_modification", file_path, FALSE, <<>>, <<>>)

\* get_modification_history(): a copy of the list
GetModificationHistory ==
    /\ NoCallInProgress
    /\ last' = Returned("get_modification_history", modification_history, TRUE, <<>>, <<>>)
    /\ UNCHANGED <<langchain_engine, fs, modification_history, calls, finder_available, gen, result>>

\* somebody outside the program removes a backup file
ExternalRemoveBackup(path) ==
    /\ NoCallInProgress
    /\ Exists(fs, path)
    /\ Suffix(path[Len(path)]) = <<".","b","a","k">>
    /\ fs' = [q \in DOMAIN fs \ {path} |-> fs[q]]
    /\ last' = Returned("external", path, TRUE, <<>>, <<>>)
    /\ UNCHANGED <<langchain_engine, modification_history, calls, finder_available, gen, result>>

Next ==
    \/ \E c \in Calls, f \in TargetFiles, r \in ModificationRequests :
           SelfModifyBegin(c, f, r)
    \/ \E c \in Calls, response \in ModificationResponses : SelfModifyResume(c, response)
    \/ \E c \in Calls : SelfModifyWriteBackup(c)
    \/ \E c \in Calls : SelfModifyWriteTarget(c)
    \/ \E c \in Calls : SelfModifyAppend(c)
    \/ \E f \in TargetFiles : RollbackModification(f)
    \/ GetModificationHistory
    \/ \E p \in DOMAIN fs : ExternalRemoveBackup(p)

Spec == Init /\ [][Next]_vars

-----------------------------------------------------------------------------
(* Claims about the self-modification manager, checked under Spec *)

\* the target matches none of the allow-list patterns
MatchesNoPattern(path) == \A k \in DOMAIN safe_patterns : ~PathMatch(path, safe_patterns[k])

\* this step returns from self_modify (every other step that leaves an
\* operation's return in last is a step of that operation too)
SelfModifyReturns == last'.op = "self_modify"

\* C1: a self_modify call whose target matches none of the allow-list
\* patterns returns False in its first step, and that step leaves every file
\* (targets and backups) and the modification history as they were, whether
\* or not an LLM is configured and the file exists.
C1_BlockedTargetUntouched ==
    [][(SelfModifyReturns /\ MatchesNoPattern(last'.file))
         => /\ NoCallInProgress
            /\ last'.value = FALSE
            /\ fs' = fs
            /\ modification_history' = modification_history]_vars

\* a blocked call has returned, for a file that exists, with an LLM configured
C1_Witness ==
    /\ last.op = "self_modify"
    /\ MatchesNoPattern(last.file)
    /\ Exists(fs, last.file)
    /\ langchain_engine
    /\ last.value = FALSE

\* C2: (a) when a self_modify call overwrites its target, the backup file
\* holds the bytes the target held until then; (b) a rollback of the same file
\* that follows a successful self_modify at once returns True and leaves the
\* target with those bytes.
C2_BackupIsPreImage ==
    [][/\ \A c \in Calls :
              (calls[c].pc = "backed_up" /\ calls'[c].pc = "written")
                => fs'[BackupPath(calls[c].target_file)] = fs[calls[c].target_file]
       /\ (/\ last.op = "self_modify"
           /\ last.value = TRUE
           /\ last'.op = "rollback_modification"
           /\ last'.file = last.file)
            => (last'.value = TRUE /\ fs'[last.file] = last.before)]_vars

\* C2 read on decoded text: the backup and the restored target hold the text
\* read_text gave for the target, the target's bytes with \r\n and \r turned
\* into \n.
C2_BackupIsDecodedPreImage ==
    [][/\ \A c \in Calls :
              (calls[c].pc = "backed_up" /\ calls'[c].pc = "written")
                => fs'[BackupPath(calls[c].target_file)]
                     = TranslateNewlines(fs[calls[c].target_file])
       /\ (/\ last.op = "self_modify"
           /\ last.value = TRUE
           /\ last'.op = "rollback_modification"
           /\ last'.file = last.file)
            => (last'.value = TRUE /\ fs'[last.file] = TranslateNewlines(last.before))]_vars

\* a successful self_modify of a file with \r\n line ends was rolled back
C2_Witness ==
    /\ last.op = "rollback_modification"
    /\ last.value = TRUE
    /\ Len(modification_history) >= 1
    /\ "\r" \in Range(Orig_CRLF)
    /\ fs[last.file] = TranslateNewlines(Orig_CRLF)

\* the files whose name ends in the backup suffix
BackupFiles(files) == {q \in DOMAIN files : Suffix(q[Len(q)]) = <<".","b","a","k">>}

\* C3: the target is overwritten only when the backup already holds the
\* original; a record is appended only by a call whose code passed validation
\* and whose backup and target writes are both in place; and no step of
\* self_modify, rollback_modification or get_modification_history removes a
\* backup file.
C3_OrderAndBackupsKept ==
    [][/\ \A c \in Calls :
              (calls[c].pc # "written" /\ calls'[c].pc = "written")
                => /\ calls[c].pc = "backed_up"
                   /\ Exists(fs, BackupPath(calls[c].target_file))
                   /\ fs[BackupPath(calls[c].target_file)] = calls[c].original_code
                   /\ fs'[calls[c].target_file] = calls[c].modified_code
       /\ (modification_history' # modification_history)
            => \E c \in Calls :
                   /\ calls[c].pc = "written"
                   /\ modification_history' = Append(modification_history,
                          [file |-> calls[c].target_file,
                           request |-> calls[c].modification_request,
                           backup |-> BackupPath(calls[c].target_file)])
                   /\ AstParses(calls[c].modified_code)
                   /\ calls[c].modified_code # calls[c].original_code
                   /\ Exists(fs', BackupPath(calls[c].target_file))
                   /\ fs'[BackupPath(calls[c].target_file)] = calls[c].original_code
                   /\ fs'[calls[c].target_file] = calls[c].modified_code
       /\ (last'.op # "external") => BackupFiles(fs) \subseteq BackupFiles(fs')]_vars

\* a record is in the history and its backup is on disk
C3_Witness ==
    /\ Len(modification_history) >= 1
    /\ Exists(fs, modification_history[1].backup)
    /\ last.op = "rollback_modification"

\* C4: a self_modify that returns False has written nothing (it was before
\* its first write, and its last step leaves files and history alone); the
\* LLM is queried only for an allow-listed, existing target with an engine
\* configured; with no engine no call ever gets past its first step.
C4_FailureLeavesNoTrace ==
    [][/\ (SelfModifyReturns /\ last'.value = FALSE)
            => /\ fs' = fs
               /\ modification_history' = modification_history
               /\ \A c \in Calls : calls[c].pc \in {"idle", "awaiting"}
       /\ \A c \in Calls :
              (calls[c].pc = "idle" /\ calls'[c].pc # "idle")
                => /\ calls'[c].pc = "awaiting"
                   /\ ~MatchesNoPattern(calls'[c].target_file)
                   /\ Exists(fs, calls'[c].target_file)
                   /\ langchain_engine
       /\ (~langchain_engine) => (\A c \in Calls : calls'[c].pc = "idle")
       /\ (~langchain_engine /\ last'.op # "external")
            => (fs' = fs /\ modification_history' = modification_history)]_vars

\* an allow-listed, existing target was refused for want of an engine
C4_Witness ==
    /\ ~langchain_engine
    /\ last.op = "self_modify"
    /\ last.value = FALSE
    /\ ~MatchesNoPattern(last.file)
    /\ Exists(fs, last.file)

\* a call whose LLM answer arrives in this step: what it decides
Decides(c) == calls[c].pc = "awaiting" /\ calls'[c].pc # "awaiting"

Accepted(c) == calls'[c].pc = "validated"

DecidedCode(c) == IF Accepted(c) THEN calls'[c].modified_code ELSE last'.code

\* C5 as claimed: the modification is accepted exactly when it parses, differs
\* from the original and is longer than 10 characters after trimming.
C5_AcceptsAboveTen ==
    [][\A c \in Calls :
          Decides(c)
            => /\ Accepted(c) <=> /\ AstParses(DecidedCode(c))
                                  /\ DecidedCode(c) # calls[c].original_code
                                  /\ Len(Strip(DecidedCode(c))) > 10
               /\ ~Accepted(c) => (SelfModifyReturns /\ last'.value = FALSE)]_vars

\* C5 amended: the modification is accepted exactly when it parses, differs
\* from the original and is at least 10 characters long after trimming; a
\* trimmed length of exactly 10 is accepted; when it is not accepted
\* self_modify returns False.
C5_AcceptsFromTen ==
    [][\A c \in Calls :
          Decides(c)
            => /\ Accepted(c) <=> /\ AstParses(DecidedCode(c))
                                  /\ DecidedCode(c) # calls[c].original_code
                                  /\ Len(Strip(DecidedCode(c))) >= 10
               /\ ~Accepted(c) => (SelfModifyReturns /\ last'.value = FALSE)]_vars

\* a modification of exactly 10 characters passed validation
C5_Witness ==
    \E c \in Calls :
        /\ calls[c].pc = "validated"
        /\ Len(Strip(calls[c].modified_code)) = 10

\* the records of a file whose backup is on disk
HasRestorableRecord(file_path) ==
    \E i \in DOMAIN modification_history :
        /\ modification_history[i].file = file_path
        /\ Exists(fs, modification_history[i].backup)

\* C10: rollback_modification(f) returns True exactly when the history holds
\* a record of f whose backup file exists, and then f holds the backup's
\* bytes and no other file changed; otherwise no file changed.  The history
\* is left as it was in both cases, and a rollback that follows a successful
\* rollback of the same file returns True and leaves f as it is.
C10_RollbackKeepsHistory ==
    [][(last'.op = "rollback_modification")
         => LET f == last'.file
            IN  /\ last'.value = HasRestorableRecord(f)
                /\ modification_history' = modification_history
                /\ last'.value
                     => /\ fs'[f] = fs[BackupPath(f)]
                        /\ \A q \in DOMAIN fs : q # f => (Exists(fs', q) /\ fs'[q] = fs[q])
                        /\ DOMAIN fs' = DOMAIN fs \cup {f}
                /\ ~last'.value => fs' = fs
                /\ (last.op = "rollback_modification" /\ last.file = f /\ last.value)
                     => (last'.value /\ fs' = fs)]_vars

\* a rollback succeeded, and one failed although the file has a record
C10_Witness ==
    /\ last.op = "rollback_modification"
    /\ last.value = TRUE
    /\ Len(modification_history) = MaxHistory
    /\ fs[last.file] = fs[BackupPath(last.file)]

-----------------------------------------------------------------------------
(* The code generation orchestrator.  A quality score is kept in hundredths:
   100 is 1.0, 5 is 0.05.  An optional value is a sequence of length 0 (None)
   or 1.  A text built by an f-string or a template keeps each literal piece
   as one element. *)

None == <<>>

Some(v) == <<v>>

\* CodeType and ProgrammingLanguage, by value
CodeTypes ==
    {"function", "class", "module", "script", "test", "refactor",
     "optimization", "documentation", "self_modification"}

ProgrammingLanguages ==
    {"python", "javascript", "typescript", "go", "rust", "java", "cpp", "shell"}

Placeholder(name) == [var |-> name]

Literal(text) == [lit |-> text]

\* _initialize_templates: each template as its literal pieces and placeholders
templates ==
    [python_function |->
        [name |-> "python_function", language |-> "python",
         template |->
            << Literal("def "), Placeholder("function_name"), Literal("("),
               Placeholder("parameters"), Literal(")"), Placeholder("type_hints"),
               Literal(":\n    \"\"\"\n    "), Placeholder("description"),
               Literal("\n    \n    Args:\n        "), Placeholder("args_description"),
               Literal("\n    \n    Returns:\n        "), Placeholder("return_description"),
               Literal("\n    \"\"\"\n    "), Placeholder("implementation"), Literal("\n") >>,
         variables |-> <<"function_name", "parameters", "type_hints", "description",
                         "args_description", "return_description", "implementation">>],
     python_class |->
        [name |-> "python_class", language |-> "python",
         template |->
            << Literal("class "), Placeholder("class_name"), Literal("("),
               Placeholder("base_classes"), Literal("):\n    \"\"\"\n    "),
               Placeholder("description"), Literal("\n    \n    Attributes:\n        "),
               Placeholder("attributes_description"),
               Literal("\n    \"\"\"\n    \n    def __init__(self, "),
               Placeholder("init_parameters"), Literal("):\n        \"\"\"Initialize "),
               Placeholder("class_name"), Literal("\"\"\"\n        "),
               Placeholder("init_implementation"), Literal("\n    \n    "),
               Placeholder("methods"), Literal("\n") >>,
         variables |-> <<"class_name", "base_classes", "description",
                         "attributes_description", "init_parameters",
                         "init_implementation", "methods">>],
     python_async |->
        [name |-> "python_async", language |-> "python",
         template |->
            << Literal("async def "), Placeholder("function_name"), Literal("("),
               Placeholder("parameters"), Literal(")"), Placeholder("type_hints"),
               Literal(":\n    \"\"\"\n    "), Placeholder("description"),
               Literal("\n    \n    Async function for "), Placeholder("purpose"),
               Literal("\n    \"\"\"\n    "), Placeholder("implementation"), Literal("\n") >>,
         variables |-> <<"function_name", "parameters", "type_hints", "description",
                         "purpose", "implementation">>]]

\* f'{request.language.value}_{request.code_type.value}'
TemplateKey(request) == <<request.language, "_", request.code_type>>

\* the template stored under a key, if any
LookupTemplate(key) ==
    IF key = <<"python", "_", "function">> THEN Some(templates.python_function)
    ELSE IF key = <<"python", "_", "class">> THEN Some(templates.python_class)
    ELSE IF key = <<"python", "_", "async">> THEN Some(templates.python_async)
    ELSE None

\* the length function_name is cut to
FunctionNameLength == 30

\* function_name with the characters outside [a-zA-Z0-9_] removed
FunctionNameStripping(description) ==
    LET lowered == Lower(description)
        kept == SelectSeq([i \in DOMAIN lowered |->
                              IF lowered[i] = " " THEN "_" ELSE lowered[i]], IsWordChar)
    IN  SubSeq(kept, 1, IF Len(kept) < FunctionNameLength THEN Len(kept) ELSE FunctionNameLength)

\* re.sub('[^a-zA-Z0-9_]', '_', description.lower().replace(' ', '_'))[:30]
FunctionName(description) ==
    LET lowered == Lower(description)
        spaced == [i \in DOMAIN lowered |-> IF lowered[i] = " " THEN "_" ELSE lowered[i]]
        subbed == [i \in DOMAIN spaced |-> IF IsWordChar(spaced[i]) THEN spaced[i] ELSE "_"]
    IN  SubSeq(subbed, 1, IF Len(subbed) < FunctionNameLength THEN Len(subbed) ELSE FunctionNameLength)

\* _get_template_variables(request, template)
GetTemplateVariables(request, template) ==
    [var \in Range(template.variables) |->
        IF var = "description" THEN request.description
        ELSE IF var = "function_name" THEN FunctionName(request.description)
        ELSE <<"# TODO: ", var>>]

\* template.template.format(**variables)
RECURSIVE FormatTemplate(_, _)
FormatTemplate(pieces, variables) ==
    IF pieces = <<>> THEN <<>>
    ELSE (IF "var" \in DOMAIN Head(pieces)
          THEN variables[Head(pieces).var]
          ELSE <<Head(pieces).lit>>) \o FormatTemplate(Tail(pieces), variables)

\* GeneratedCode(...), complexity_score at its default
GeneratedCode(code, language, description, tests, documentation, quality_score) ==
    [code |-> code, language |-> language, description |-> description,
     tests |-> tests, documentation |-> documentation,
     complexity_score |-> 0, quality_score |-> quality_score]

\* a fallback that forgets the description
GenerateWithTemplatesBare(request) ==
    GeneratedCode(<<"# TODO: Implement ">>, request.language, request.description,
                  None, None, 0)

\* _generate_with_templates(request): tests, documentation and quality_score
\* at their defaults
GenerateWithTemplates(request) ==
    LET found == LookupTemplate(TemplateKey(request))
    IN  IF found # None
        THEN GeneratedCode(
                 FormatTemplate(found[1].template, GetTemplateVariables(request, found[1])),
                 request.language, request.description, None, None, 0)
        ELSE GeneratedCode(<<"# TODO: Implement ">> \o request.description,
                 request.language, request.description, None, None, 0)

\* the score as computed, with no max/min around it
Unclamped(score) == score

\* max(0.0, min(1.0, score))
Clamp(score) == IF score < 0 THEN 0 ELSE IF score > 100 THEN 100 ELSE score

\* _analyze_python(code)
AnalyzePython(code) ==
    IF AstParses(code)
    THEN Clamp(100
               - 10 * UndocumentedDefs(code)
               - (IF ~HasTry(code) /\ Len(code) > 100 THEN 10 ELSE 0)
               - (IF ~Contains(code, <<"-",">">>) /\ Len(code) > 50 THEN 5 ELSE 0))
    ELSE Clamp(0)

\* _analyze_javascript(code)
AnalyzeJavascript(code) ==
    Clamp(100
          - (IF Contains(code, <<"v","a","r"," ">>) THEN 10 ELSE 0)
          - (IF Contains(code, <<"c","o","n","s","o","l","e",".","l","o","g">>) THEN 5 ELSE 0)
          - (IF ~\E m \in {<<"t","r","y">>, <<"c","a","t","c","h">>, <<".","c","a","t","c","h">>} : Contains(code, m) THEN 10 ELSE 0))

\* _analyze_code_quality(code, language): self.analyzers, else 0.5
AnalyzeCodeQuality(code, language) ==
    IF language = "python" THEN AnalyzePython(code)
    ELSE IF language = "javascript" THEN AnalyzeJavascript(code)
    ELSE 50

\* what self.formatters[language] may return for a code.  black and autopep8
\* are libraries: either one rewrites the code, of which the model keeps the
\* final newline it ends a non-empty code with, or both raise and the code
\* comes back as it is; _format_javascript returns its argument; a language
\* without a formatter is not formatted
Formatted(code, language) ==
    IF language = "python"
    THEN {code} \cup {IF code # <<>> /\ code[Len(code)] # "\n"
                      THEN code \o <<"\n">> ELSE code}
    ELSE {code}

\* level_map of _check_for_existing_solution, FUNCTION by default
SolutionLevel(code_type) ==
    IF code_type = "function" THEN "FUNCTION"
    ELSE IF code_type = "class" THEN "MODULE"
    ELSE IF code_type \in {"module", "script"} THEN "PACKAGE"
    ELSE "FUNCTION"

\* the arguments of check_before_coding
FinderQuery(request) ==
    [description |-> request.description,
     level |-> SolutionLevel(request.code_type),
     features |-> request.requirements,
     constraints |-> request.constraints]

\* the prompts sent to query_with_memory, by what each embeds, with the topic
\* tag
GenerationQuery(request) ==
    [about |-> "generate", tag |-> "coding", language |-> request.language,
     code_type |-> request.code_type, description |-> request.description,
     requirements |-> request.requirements, constraints |-> request.constraints,
     examples |-> request.examples]

TestsQuery(code, request) ==
    [about |-> "tests", tag |-> "coding", language |-> request.language, code |-> code]

DocumentationQuery(code, request) ==
    [about |-> "documentation", tag |-> "documentation",
     language |-> request.language, code |-> code]

LibraryQuery(request, solution) ==
    [about |-> "library", tag |-> "coding", language |-> request.language,
     description |-> request.description, library |-> solution.name]

\* the quality_score of a library result
LibraryQualityScore == 90

\* the comment banner of _generate_library_usage_code
LibraryBanner(solution, solution_check) ==
    <<"\n# Using ">> \o solution.name
    \o <<" library instead of custom implementation\n# ">> \o solution.description
    \o <<"\n# Installation: ">> \o solution.installation \o <<"\n\n">>
    \o (IF "code_example" \in DOMAIN solution_check THEN solution_check.code_example ELSE <<>>)
    \o <<"\n\n# Implementation using ">> \o solution.name \o <<":\n">>

\* the import-and-TODO stub used without an LLM
LibraryStub(solution) ==
    <<"\nimport ">> \o solution.name \o <<"\n\n# TODO: Implement using ">> \o solution.name
    \o <<"\n# See documentation: ">> \o solution.url \o <<"\n">>

\* the documentation of a library result
LibraryDocumentation(solution, solution_check) ==
    <<"\n## Implementation using ">> \o solution.name
    \o <<"\n\nThis implementation uses the open source library '">> \o solution.name
    \o <<"' instead of custom code.\n\n### Why use this library?\n">>
    \o (IF "pros" \in DOMAIN solution THEN solution.pros
        ELSE <<"Well-maintained, tested solution">>)
    \o <<"\n\n### Installation\n", BT, BT, BT, "bash\n">> \o solution.installation
    \o <<"\n", BT, BT, BT, "\n\n### Documentation\n">> \o solution.url
    \o <<"\n\n### Match Score\n", solution.match_score, " - ">>
    \o solution_check.recommendation \o <<"\n">>

\* a library result that scores its code instead of taking the fixed score
LibraryResultScored(request, solution, solution_check, library_code) ==
    GeneratedCode(library_code, request.language,
        <<"Implementation using ">> \o solution.name \o <<": ">> \o request.description,
        None, Some(LibraryDocumentation(solution, solution_check)),
        AnalyzeCodeQuality(library_code, request.language))

\* the GeneratedCode _generate_library_usage_code returns
LibraryResult(request, solution, solution_check, library_code) ==
    GeneratedCode(library_code, request.language,
        <<"Implementation using ">> \o solution.name \o <<": ">> \o request.description,
        None, Some(LibraryDocumentation(solution, solution_check)), LibraryQualityScore)

(* Inputs of generate_code *)

D_add == <<"a","d","d"," ","t","w","o"," ","n","u","m","b","e","r","s">>
D_url == <<"P","a","r","s","e"," ","U","R","L","-","s",","," ","v","2","!">>
D_long == <<"S","o","r","t"," ","a"," ","l","i","s","t",";"," ","t","h","e","n"," ","d","e","-","d","u","p","l","i","c","a","t","e"," ","t","h","e"," ","i","t","e","m","s">>
D_plain == <<"g","e","t","_","i","t","e","m">>

Descriptions == {D_add, D_url, D_long, D_plain}

\* the requests tried: every description, for these code types and languages
RequestCodeTypes == {"function", "class", "test", "script"}

RequestLanguages == {"python", "javascript", "go"}

Requests ==
    [description : Descriptions, code_type : RequestCodeTypes,
     language : RequestLanguages, requirements : {<<"fast">>},
     constraints : {<<>>}, examples : {None}]

\* how many undocumented definitions the longest answer holds
MaxDefs == 11

\* what the LLM may answer to a generation prompt
G_undoc == <<"d","e","f"," ","f","(",")",":","\n"," "," "," "," ","p","a","s","s">>
G_doc == <<BT,BT,BT,"p","y","t","h","o","n","\n","d","e","f"," ","f","(",")"," ","-",">"," ","i","n","t",":","\n"," "," "," "," ","\"","d","\"","\n"," "," "," "," ","r","e","t","u","r","n"," ","(","1",")","\n",BT,BT,BT>>
G_bad == <<"d","e","f"," ","f","(",":">>
G_many == Concat(Rep(<<"d","e","f"," ","f","(",")",":","0","\n">>, MaxDefs))
G_mid == Concat(Rep(<<"x"," ","="," ","(","1",")","\n">>, 8))
G_js == <<"v","a","r"," ","="," ","c","o","n","s","o","l","e",".","l","o","g">>

GenerationResponses == {G_undoc, G_doc, G_bad, G_many, G_mid, G_js}

TestsResponses == {<<"d","e","f"," ","t","e","s","t","_","f","(",")",":","\n"," "," "," "," ","a","s","s","e","r","t"," ","f","(",")">>}

DocumentationResponses == {<<"O","v","e","r","v","i","e","w",":"," ","f"," ","r","e","t","u","r","n","s"," ","1",".">>}

LibraryResponses == {<<BT,BT,BT,"\n","i","m","p","o","r","t"," ","r","e","q","u","e","s","t","s","\n",BT,BT,BT>>}

S_requests ==
    [name |-> <<"r","e","q","u","e","s","t","s">>, description |-> <<"H","T","T","P"," ","f","o","r"," ","H","u","m","a","n","s">>,
     installation |-> <<"p","i","p"," ","i","n","s","t","a","l","l"," ","r","e","q","u","e","s","t","s">>, url |-> <<"h","t","t","p","s",":","/","/","r","e","q","u","e","s","t","s",".","e","x","a","m","p","l","e">>,
     match_score |-> "0.93"]

\* what check_before_coding may answer
A_custom == [should_use_library |-> FALSE, recommendation |-> <<"w","r","i","t","e"," ","i","t">>, solutions |-> <<>>]
A_listed == [should_use_library |-> FALSE, recommendation |-> <<"w","r","i","t","e"," ","i","t">>, solutions |-> <<S_requests>>]
A_library == [should_use_library |-> TRUE, recommendation |-> <<"u","s","e"," ","r","e","q","u","e","s","t","s">>, solutions |-> <<S_requests>>]
A_unnamed == [should_use_library |-> TRUE, recommendation |-> <<"u","s","e"," ","a"," ","l","i","b","r","a","r","y">>, solutions |-> <<>>]

FinderAnswers == {A_custom, A_listed, A_library, A_unnamed}

\* generate_code has returned value, built by method via, after the LLM
\* queries (in order) and the finder query, if any, it made
ReturnedCode(value, via, g) ==
    [kind |-> "returned", value |-> value, via |-> via,
     queries |-> g.queries, request |-> g.request, solution_check |-> g.solution_check]

\* generate_code has raised
RaisedError(error, via, g) ==
    [kind |-> "raised", error |-> error, via |-> via,
     queries |-> g.queries, request |-> g.request, solution_check |-> g.solution_check]

StartedGen(request) ==
    [pc |-> "started", request |-> request, solution_check |-> None,
     queries |-> <<>>, code |-> <<>>, library_code |-> <<>>, tests |-> None]

InitGen ==
    /\ langchain_engine \in BOOLEAN
    /\ finder_available \in BOOLEAN
    /\ fs = [p \in {F_osa} |-> Orig_LF]
    /\ modification_history = <<>>
    /\ calls = [c \in Calls |-> IdleCall]
    /\ last = NoReturn
    /\ gen = IdleGen
    /\ result = NoResult

\* _generate_with_langchain(request) up to its first await (lines 104-105);
\* with no engine the call on None raises AttributeError
GenerateWithLangchain(g) ==
    IF langchain_engine
    THEN /\ gen' = [g EXCEPT !.pc = "await_code",
                             !.queries = Append(g.queries, GenerationQuery(g.request))]
         /\ result' = NoResult
    ELSE /\ gen' = IdleGen
         /\ result' = RaisedError("AttributeError", "_generate_with_langchain", g)

\* generate_code after the finder: lines 97-100
GenerateCustom(g) ==
    IF langchain_engine
    THEN GenerateWithLangchain(g)
    ELSE /\ gen' = IdleGen
         /\ result' = ReturnedCode(GenerateWithTemplates(g.request),
                                   "_generate_with_templates", g)

\* generate_code(request) up to its first await (lines 91-93, or to the end
\* when there is no finder)
GenerateCode(request) ==
    /\ gen.pc = "idle"
    /\ UNCHANGED <<langchain_engine, fs, modification_history, calls, last, finder_available>>
    /\ IF finder_available
       THEN /\ gen' = [StartedGen(request) EXCEPT !.pc = "await_finder"]
            /\ result' = NoResult
       ELSE GenerateCustom(StartedGen(request))

\* _generate_library_usage_code(request, solution_check) up to its await, or
\* to its end when there is no engine (lines 320-334)
GenerateLibraryUsageCode(g) ==
    IF g.solution_check[1].solutions = <<>>
    THEN GenerateWithLangchain(g)
    ELSE LET best_solution == g.solution_check[1].solutions[1]
             banner == LibraryBanner(best_solution, g.solution_check[1])
         IN  IF langchain_engine
             THEN /\ gen' = [g EXCEPT !.pc = "await_library",
                                      !.library_code = banner,
                                      !.queries = Append(g.queries,
                                                     LibraryQuery(g.request, best_solution))]
                  /\ result' = NoResult
             ELSE /\ gen' = IdleGen
                  /\ \E library_code \in Formatted(banner \o LibraryStub(best_solution),
                                                   g.request.language) :
                         result' = ReturnedCode(
                             LibraryResult(g.request, best_solution, g.solution_check[1],
                                           library_code),
                             "_generate_library_usage_code", g)

\* check_before_coding answers (lines 93-96, 309-316)
FinderAnswer(solution_check) ==
    /\ gen.pc = "await_finder"
    /\ UNCHANGED <<langchain_engine, fs, modification_history, calls, last, finder_available>>
    /\ LET g == [gen EXCEPT !.solution_check = Some(solution_check)]
       IN  IF solution_check.should_use_library
           THEN GenerateLibraryUsageCode(g)
           ELSE GenerateCustom(g)

\* the LLM answers the library prompt (lines 326-334)
LibraryAnswer(response) ==
    /\ gen.pc = "await_library"
    /\ UNCHANGED <<langchain_engine, fs, modification_history, calls, last, finder_available>>
    /\ gen' = IdleGen
    /\ \E library_code \in Formatted(gen.library_code \o ExtractCodeFromResponse(response),
                                     gen.request.language) :
           result' = ReturnedCode(
               LibraryResult(gen.request, gen.solution_check[1].solutions[1],
                             gen.solution_check[1], library_code),
               "_generate_library_usage_code", gen)

\* the LLM answers the documentation prompt: _generate_documentation returns
\* the answer, the code is scored and the result built (lines 112-114, 167-168)
AwaitDocumentation(g, code) ==
    /\ gen' = [g EXCEPT !.pc = "await_documentation",
                        !.code = code,
                        !.queries = Append(g.queries, DocumentationQuery(code, g.request))]
    /\ result' = NoResult

\* CodeAnswer without the test on code_type: tests are asked for every request
CodeAnswerAlwaysTests(response) ==
    /\ gen.pc = "await_code"
    /\ UNCHANGED <<langchain_engine, fs, modification_history, calls, last, finder_available>>
    /\ \E code \in Formatted(ExtractCodeFromResponse(response), gen.request.language) :
           /\ gen' = [gen EXCEPT !.pc = "await_tests",
                                 !.code = code,
                                 !.queries = Append(gen.queries,
                                                    TestsQuery(code, gen.request))]
           /\ result' = NoResult

\* the LLM answers the generation prompt: the code is extracted and formatted,
\* then tests are asked for unless the request is for a test (lines 105-112)
CodeAnswer(response) ==
    /\ gen.pc = "await_code"
    /\ UNCHANGED <<langchain_engine, fs, modification_history, calls, last, finder_available>>
    /\ \E code \in Formatted(ExtractCodeFromResponse(response), gen.request.language) :
           IF gen.request.code_type # "test"
           THEN /\ gen' = [gen EXCEPT !.pc = "await_tests",
                                      !.code = code,
                                      !.queries = Append(gen.queries,
                                                         TestsQuery(code, gen.request))]
                /\ result' = NoResult
           ELSE AwaitDocumentation(gen, code)

\* the LLM answers the tests prompt (lines 159-160, 112)
TestsAnswer(response) ==
    /\ gen.pc = "await_tests"
    /\ UNCHANGED <<langchain_engine, fs, modification_history, calls, last, finder_available>>
    /\ AwaitDocumentation([gen EXCEPT !.tests = Some(ExtractCodeFromResponse(response))],
                          gen.code)

DocumentationAnswer(response) ==
    /\ gen.pc = "await_documentation"
    /\ UNCHANGED <<langchain_engine, fs, modification_history, calls, last, finder_available>>
    /\ gen' = IdleGen
    /\ result' = ReturnedCode(
           GeneratedCode(gen.code, gen.request.language, gen.request.description,
                         gen.tests, Some(response),
                         AnalyzeCodeQuality(gen.code, gen.request.language)),
           "_generate_with_langchain", gen)

NextGen ==
    \/ \E request \in Requests : GenerateCode(request)
    \/ \E solution_check \in FinderAnswers : FinderAnswer(solution_check)
    \/ \E response \in LibraryResponses : LibraryAnswer(response)
    \/ \E response \in GenerationResponses : CodeAnswer(response)
    \/ \E response \in TestsResponses : TestsAnswer(response)
    \/ \E response \in DocumentationResponses : DocumentationAnswer(response)

SpecGen == InitGen /\ [][NextGen]_vars

-----------------------------------------------------------------------------
(* Claims about the code generation orchestrator, checked under SpecGen *)

\* the finder was asked and recommended a library
LibraryRecommended(r) ==
    /\ r.solution_check # None
    /\ r.solution_check[1].should_use_library

\* a GeneratedCode as the library path builds it: fixed score, no tests, no
\* generation, tests or documentation prompt sent
FromLibraryPath(r) ==
    /\ r.kind = "returned"
    /\ r.via = "_generate_library_usage_code"
    /\ r.value.quality_score = 90
    /\ r.value.tests = None
    /\ \A k \in DOMAIN r.queries : r.queries[k].about = "library"

KeyInTemplateStore(request) ==
    /\ request.language = "python"
    /\ request.code_type \in {"function", "class", "async"}

\* C7: with no template under the request's key, no LLM configured and no
\* library recommended, generate_code returns '# TODO: Implement ' followed by
\* the description, with tests and documentation absent and quality_score
\* 0.0, and sends no prompt to an LLM.
C7_TodoFallback ==
    (/\ result.kind # "none"
     /\ ~KeyInTemplateStore(result.request)
     /\ ~langchain_engine
     /\ ~LibraryRecommended(result))
      => /\ result.kind = "returned"
         /\ result.value.code = <<"# TODO: Implement ">> \o result.request.description
         /\ result.value.description = result.request.description
         /\ result.value.language = result.request.language
         /\ result.value.tests = None
         /\ result.value.documentation = None
         /\ result.value.quality_score = 0
         /\ result.queries = <<>>

\* the spec's example came back from the fallback, after the finder declined
C7_Witness ==
    /\ result.kind = "returned"
    /\ ~langchain_engine
    /\ result.solution_check # None
    /\ result.request.language = "javascript"
    /\ result.value.code = <<"# TODO: Implement ">> \o D_add

\* the score _analyze_python gives a code that parses, before it is clamped
PythonPenalties(code) ==
    10 * UndocumentedDefs(code)
    + (IF ~HasTry(code) /\ Len(code) > 100 THEN 10 ELSE 0)
    + (IF ~Contains(code, <<"-",">">>) /\ Len(code) > 50 THEN 5 ELSE 0)

\* C8: the quality_score of every GeneratedCode generate_code returns is in
\* [0.0, 1.0]; on the LLM path Python code that does not parse scores 0.0,
\* Python code that parses scores 1.0 less its penalties (0.1 for each
\* undocumented definition) and never less than 0.0, and a language other
\* than Python and JavaScript scores 0.5.
C8_QualityScoreInRange ==
    (result.kind = "returned")
      => /\ 0 <= result.value.quality_score
         /\ result.value.quality_score <= 100
         /\ (result.via = "_generate_with_langchain")
              => LET code == result.value.code
                     q == result.value.quality_score
                 IN  /\ (result.value.language = "python" /\ ~AstParses(code)) => q = 0
                     /\ (result.value.language = "python" /\ AstParses(code))
                          => q = (IF PythonPenalties(code) > 100 THEN 0
                                  ELSE 100 - PythonPenalties(code))
                     /\ (result.value.language \notin {"python", "javascript"}) => q = 50

\* Python code with more than ten undocumented definitions was scored
C8_Witness ==
    /\ result.kind = "returned"
    /\ result.via = "_generate_with_langchain"
    /\ result.value.language = "python"
    /\ AstParses(result.value.code)
    /\ UndocumentedDefs(result.value.code) > 10
    /\ result.value.quality_score = 0

\* the request was answered from a stored template
FromTemplate(r) ==
    /\ r.kind = "returned"
    /\ r.via = "_generate_with_templates"
    /\ KeyInTemplateStore(r.request)

TemplateOf(request) ==
    IF request.code_type = "function" THEN templates.python_function
    ELSE IF request.code_type = "class" THEN templates.python_class
    ELSE templates.python_async

\* the description lower-cased, spaces and every other character outside
\* [A-Za-z0-9_] turned into underscores, cut to 30 characters
UnderscoredName(description) ==
    [i \in 1..(IF Len(description) < 30 THEN Len(description) ELSE 30) |->
        IF IsWordChar(LowerChar(description[i])) THEN LowerChar(description[i]) ELSE "_"]

\* C9 as claimed: the template is filled with function_name = the description
\* lower-cased, spaces turned into underscores, the other characters outside
\* [A-Za-z0-9_] removed, cut to 30 characters; description = the request's
\* description; every other placeholder a TODO marker naming it.
C9_FunctionNameStripped ==
    FromTemplate(result)
      => result.value.code =
           FormatTemplate(TemplateOf(result.request).template,
               [var \in Range(TemplateOf(result.request).variables) |->
                   IF var = "description" THEN result.request.description
                   ELSE IF var = "function_name"
                        THEN FunctionNameStripping(result.request.description)
                   ELSE <<"# TODO: ", var>>])

\* C9 amended: the template is filled with function_name = the description
\* lower-cased, spaces and every other character outside [A-Za-z0-9_]
\* replaced by an underscore (none removed), cut to 30 characters;
\* description = the request's description; every other placeholder the
\* marker '# TODO: ' followed by its name.
C9_FunctionNameUnderscored ==
    FromTemplate(result)
      => result.value.code =
           FormatTemplate(TemplateOf(result.request).template,
               [var \in Range(TemplateOf(result.request).variables) |->
                   IF var = "description" THEN result.request.description
                   ELSE IF var = "function_name"
                        THEN UnderscoredName(result.request.description)
                   ELSE <<"# TODO: ", var>>])

\* a function template was filled for a description longer than 30
\* characters that holds punctuation
C9_Witness ==
    /\ FromTemplate(result)
    /\ result.request.code_type = "function"
    /\ result.request.description = D_long
    /\ Len(D_long) > 30
    /\ \E i \in 1..30 : D_long[i] \notin {" "} /\ ~IsWordChar(D_long[i])

\* the subjects of the LLM queries a call has made, in the order it made them
Abouts(queries) ==
    [k \in DOMAIN queries |-> queries[k].about]

\* the queries the LLM generation path makes for a request: the test prompt
\* is left out when the request is for a test
LlmCallOrder(request) ==
    IF request.code_type # "test"
    THEN <<"generate", "tests", "documentation">>
    ELSE <<"generate", "documentation">>

\* generate_code is on the LLM generation path with no library recommended
OnLlmPath(g) ==
    /\ g.pc \in {"await_code", "await_tests", "await_documentation"}
    /\ ~LibraryRecommended(g)

\* C11: on the LLM generation path (no library recommended, LLM configured)
\* the LLM is awaited in the order code generation, test generation,
\* documentation, each query issued only after the previous one was answered
\* (the queries made so far are the expected order up to the one being
\* awaited, and the later prompts embed the code of the first answer); the
\* test query is made exactly when code_type is not TEST, so the result's
\* tests are absent iff code_type is TEST, and the calls number 3 (2 for TEST).
C11_LlmCallOrder ==
    /\ OnLlmPath(gen) =>
         /\ langchain_engine
         /\ Abouts(gen.queries)
              = SubSeq(LlmCallOrder(gen.request), 1, Len(gen.queries))
         /\ gen.queries[Len(gen.queries)].about
              = CASE gen.pc = "await_code" -> "generate"
                  [] gen.pc = "await_tests" -> "tests"
                  [] gen.pc = "await_documentation" -> "documentation"
         /\ gen.pc = "await_tests" => gen.request.code_type # "test" /\ gen.tests = None
         /\ gen.pc = "await_documentation"
              => (gen.tests = None <=> gen.request.code_type = "test")
         /\ \A k \in 2..Len(gen.queries) : gen.queries[k].code = gen.code
    /\ (/\ result.kind = "returned"
        /\ result.via = "_generate_with_langchain"
        /\ ~LibraryRecommended(result)) =>
         /\ langchain_engine
         /\ Abouts(result.queries) = LlmCallOrder(result.request)
         /\ Len(result.queries) = IF result.request.code_type = "test" THEN 2 ELSE 3
         /\ result.value.tests = None <=> result.request.code_type = "test"
         /\ \A k \in 2..Len(result.queries) : result.queries[k].code = result.value.code

\* a request for a test was answered on the LLM generation path after the
\* finder advised against a library: two queries, no tests
C11_Witness ==
    /\ result.kind = "returned"
    /\ result.via = "_generate_with_langchain"
    /\ result.solution_check # None
    /\ ~LibraryRecommended(result)
    /\ result.request.code_type = "test"
    /\ Abouts(result.queries) = <<"generate", "documentation">>
    /\ result.value.tests = None

-----------------------------------------------------------------------------
(* Overlapping self_modify calls.  On one event loop a coroutine gives way
   only at an await: self_modify has a single one, the LLM query of line 244,
   so a call may begin, or resume, while others wait for their answers, and
   the statements from the validation to the return (lines 248-256) run
   without interruption. *)

\* coroutine c is between the LLM's answer and its return
Running(c) == calls[c].pc \in {"validated", "backed_up", "written"}

NoCallRunning == \A c \in Calls : ~Running(c)

\* the calls that have begun and not returned
CallsInProgress == {c \in Calls : calls[c].pc # "idle"}

\* the paths and the request texts the overlapping calls are made with
RaceTargetFiles == {F_osa, F_core, F_main}

RaceRequests == ModificationRequests

\* self_modify up to its await (lines 232-247), begun while other calls wait
\* for the LLM
SelfModifyBeginOverlapped(c, target_file, modification_request) ==
    /\ NoCallRunning
    /\ IsFreeCall(c)
    /\ Len(modification_history) + Cardinality(CallsInProgress) < MaxHistory
    /\ UNCHANGED <<langchain_engine, fs, modification_history, finder_available, gen, result>>
    /\ IF ~IsSafeToModify(target_file)
       THEN /\ last' = Returned("self_modify", target_file, FALSE, <<>>, <<>>)
            /\ UNCHANGED calls
       ELSE IF ~Exists(fs, target_file)
       THEN /\ last' = Returned("self_modify", target_file, FALSE, <<>>, <<>>)
            /\ UNCHANGED calls
       ELSE IF langchain_engine
       THEN /\ calls' = [calls EXCEPT ![c] =
                   [pc |-> "awaiting",
                    target_file |-> target_file,
                    modification_request |-> modification_request,
                    original_code |-> ReadText(fs, target_file),
                    modified_code |-> <<>>,
                    overwritten |-> <<>>]]
            /\ last' = NoReturn
       ELSE /\ last' = Returned("self_modify", target_file, FALSE, <<>>, <<>>)
            /\ UNCHANGED calls

\* the LLM answers call c while other calls may still wait for theirs
SelfModifyResumeOverlapped(c, response) ==
    /\ NoCallRunning
    /\ SelfModifyResume(c, response)

NextRace ==
    \/ \E c \in Calls, f \in RaceTargetFiles, r \in RaceRequests :
           SelfModifyBeginOverlapped(c, f, r)
    \/ \E c \in Calls, response \in ModificationResponses :
           SelfModifyResumeOverlapped(c, response)
    \/ \E c \in Calls : SelfModifyWriteBackup(c)
    \/ \E c \in Calls : SelfModifyWriteTarget(c)
    \/ \E c \in Calls : SelfModifyAppend(c)
    \/ \E f \in RaceTargetFiles : RollbackModification(f)

SpecRace == Init /\ [][NextRace]_vars

-----------------------------------------------------------------------------
(* Claims about overlapping self_modify calls, checked under SpecRace *)

\* call c has written the target, and the target had changed since c read
\* it: another call's write came between c's read and c's answer
StaleRead(c) ==
    /\ calls[c].pc = "written"
    /\ TranslateNewlines(calls[c].overwritten) # calls[c].original_code

\* the history's records of a file, by index
RecordsOf(file) ==
    {i \in DOMAIN modification_history : modification_history[i].file = file}

\* C12: overlapping self_modify calls on one file are not serialized.  A call
\* whose read was overtaken by another call's write still succeeds: the other
\* call has appended its record, the later call overwrites the other call's
\* modified content, writes the backup from the original it read and not
\* from the content the target held immediately before the overwrite, and
\* every record of the file names that one backup, so no rollback brings the
\* earlier modification back; once it has returned True the file has two
\* records and holds the later call's code.  (C12_Witness is the interleaving
\* itself.)
C12_LostUpdate ==
    /\ \A c \in Calls : StaleRead(c) =>
         LET f == calls[c].target_file
         IN  /\ RecordsOf(f) # {}
             /\ \E r \in ModificationResponses :
                    calls[c].overwritten = ExtractCodeFromResponse(r)
             /\ fs[f] = calls[c].modified_code
             /\ fs[BackupPath(f)] = calls[c].original_code
             /\ ReadText(fs, BackupPath(f)) # TranslateNewlines(calls[c].overwritten)
             /\ \A i \in RecordsOf(f) : modification_history[i].backup = BackupPath(f)
    /\ (/\ NoCallRunning
        /\ last.op = "self_modify"
        /\ last.value = TRUE
        /\ ReadText(fs, BackupPath(last.file)) # TranslateNewlines(last.before)) =>
         /\ Cardinality(RecordsOf(last.file)) >= 2
         /\ fs[last.file] = last.code
         /\ \A i \in RecordsOf(last.file) :
                modification_history[i].backup = BackupPath(last.file)

\* two calls on src/core/b.py both read its first content; both answers were
\* accepted and both calls appended a record; the call that has just returned
\* True overwrote the other call's code, and the backup holds the first
\* content, which the target no longer held when it was overwritten
C12_Witness ==
    /\ NoCallInProgress
    /\ last.op = "self_modify"
    /\ last.value = TRUE
    /\ last.file = F_core
    /\ Len(modification_history) = 2
    /\ RecordsOf(F_core) = {1, 2}
    /\ fs[BackupPath(F_core)] = Orig_LF
    /\ last.before # Orig_LF
    /\ \E r \in ModificationResponses : last.before = ExtractCodeFromResponse(r)
    /\ fs[F_core] = last.code
    /\ last.code # last.before

\* in calls that do not overlap no read is overtaken
SerialReadsAreFresh == \A c \in Calls : ~StaleRead(c)

=============================================================================
